---- MODULE Spec2Model ----
(***************************************************************************)
(* A model of the 10-K analysis pipeline of backend/model.py and of the    *)
(* /analyze request handler of backend/main.py.                            *)
(*                                                                         *)
(* Text is a sequence of one-character strings.  Token counts and the      *)
(* token budget are scaled down: the tokenizer is an external library, so  *)
(* the count of each unit is an arbitrary positive number fixed per unit.  *)
(***************************************************************************)
EXTENDS Integers, Sequences, FiniteSets, TLC

(***************************************************************************)
(* Bounds of the model.                                                    *)
(***************************************************************************)
MaxRawLen == 7
MaxTok == 3
MaxBudget == 4
MaxRecords == 3

(***************************************************************************)
(* Python string primitives on sequences of characters.                    *)
(***************************************************************************)
Whitespace == {" ", "\n"}

Delim == <<".", " ">>

\* s.startswith(p)
StartsWith(s, p) == Len(s) >= Len(p) /\ SubSeq(s, 1, Len(p)) = p

\* s[n:]
DropFirst(s, n) == SubSeq(s, n + 1, Len(s))

\* s.split(sep): left-to-right, non-overlapping; "" gives [""]
RECURSIVE SplitFrom(_, _, _)
SplitFrom(s, sep, acc) ==
    IF s = <<>> THEN <<acc>>
    ELSE IF StartsWith(s, sep)
         THEN <<acc>> \o SplitFrom(DropFirst(s, Len(sep)), sep, <<>>)
         ELSE SplitFrom(Tail(s), sep, Append(acc, Head(s)))

Split(s, sep) == SplitFrom(s, sep, <<>>)

\* s.split(): split on runs of whitespace, no empty strings
RECURSIVE WordsFrom(_, _)
WordsFrom(s, acc) ==
    IF s = <<>> THEN (IF acc = <<>> THEN <<>> ELSE <<acc>>)
    ELSE IF Head(s) \in Whitespace
         THEN (IF acc = <<>> THEN <<>> ELSE <<acc>>) \o WordsFrom(Tail(s), <<>>)
         ELSE WordsFrom(Tail(s), Append(acc, Head(s)))

Words(s) == WordsFrom(s, <<>>)

\* s.lstrip(), s.rstrip(), s.strip()
RECURSIVE LStrip(_)
LStrip(s) == IF s # <<>> /\ Head(s) \in Whitespace THEN LStrip(Tail(s)) ELSE s

RECURSIVE RStrip(_)
RStrip(s) ==
    IF s # <<>> /\ s[Len(s)] \in Whitespace THEN RStrip(SubSeq(s, 1, Len(s) - 1)) ELSE s

Strip(s) == RStrip(LStrip(s))

\* sep.join(parts)
RECURSIVE Join(_, _)
Join(parts, sep) ==
    IF parts = <<>> THEN <<>>
    ELSE IF Len(parts) = 1 THEN parts[1]
    ELSE parts[1] \o sep \o Join(Tail(parts), sep)

\* the concatenation of the sequences of ss, in order
RECURSIVE Concat(_)
Concat(ss) == IF ss = <<>> THEN <<>> ELSE Head(ss) \o Concat(Tail(ss))

\* [f(x) for x in seq if keep(x)] for f = strip, keep = non-empty after strip
RECURSIVE StrippedNonEmpty(_)
StrippedNonEmpty(lines) ==
    IF lines = <<>> THEN <<>>
    ELSE (IF Strip(Head(lines)) # <<>> THEN <<Strip(Head(lines))>> ELSE <<>>)
         \o StrippedNonEmpty(Tail(lines))

\* TenKAnalyzer.preprocess_text
preprocess_text(raw) ==
    LET joined == Join(StrippedNonEmpty(Split(raw, <<"\n">>)), <<"\n">>)
    IN  Join(Words(joined), <<" ">>)

(***************************************************************************)
(* Inputs.                                                                 *)
(***************************************************************************)
RawAlphabet == {"A", ".", " ", "\n"}

RawTexts == UNION {[1..n -> RawAlphabet] : n \in 0..MaxRawLen}

\* the example document of the specification: "A. B. C."
ExampleText == <<"A", ".", " ", "B", ".", " ", "C", ".">>

\* what analyze_10k hands to chunk_text: preprocessed text
ChunkInputs == {preprocess_text(r) : r \in RawTexts} \cup {ExampleText}

Range(f) == {f[i] : i \in DOMAIN f}

\* the tokenizers the model considers for a text: a positive count for each
\* unit (the unit with its ". " delimiter), the same count for equal units
Tokenizers(t) == [Range(Split(t, Delim)) -> 1..MaxTok]

VARIABLES
    pc,             \* position in the request handler / analyze_10k / chunk_text
    tmp_exists,     \* the temporary file of the request exists on disk
    text,           \* the preprocessed document text
    max_tokens,     \* self.max_tokens
    tok,            \* len(self.tokenizer.encode(unit + '. ')) for each unit
    sentences,      \* chunk_text: the split units
    idx,            \* chunk_text: index of the next unit of the loop
    chunks,         \* chunk_text: chunks
    current_chunk,  \* chunk_text: current_chunk
    current_tokens, \* chunk_text: current_tokens
    groups,         \* history: for each emitted chunk, the indexes of its units
    cur_group,      \* history: the indexes of the units of current_chunk
    analyses,       \* analyze_10k: analyses
    calls,          \* history: the chunks passed to the completion service
    outcomes,       \* history: what the completion service did at each call
    consolidations, \* history: the argument of each consolidate_analyses call
    final,          \* analyze_10k: final_analysis
    response        \* what the request ended with

vars == <<pc, tmp_exists, text, max_tokens, tok, sentences, idx, chunks,
          current_chunk, current_tokens, groups, cur_group, analyses, calls,
          outcomes, consolidations, final, response>>

chunkVars == <<sentences, idx, chunks, current_chunk, current_tokens, groups, cur_group>>

analysisVars == <<analyses, calls, outcomes, consolidations, final, response>>

(***************************************************************************)
(* TenKAnalyzer.chunk_text                                                 *)
(***************************************************************************)
\* a variant of line 62 that tests the running count alone
OverflowsBeforeAdding(cur_tokens, sentence_tokens, budget) == cur_tokens > budget

\* line 62: adding the unit would exceed the budget
Overflows(cur_tokens, sentence_tokens, budget) == cur_tokens + sentence_tokens > budget

\* lines 53-57: the locals, and the split into units
chunk_text_begin ==
    /\ pc = "chunk_text"
    /\ chunks' = <<>>
    /\ current_chunk' = <<>>
    /\ current_tokens' = 0
    /\ sentences' = Split(text, Delim)
    /\ idx' = 1
    /\ groups' = <<>>
    /\ cur_group' = <<>>
    /\ pc' = "chunk_loop"
    /\ UNCHANGED <<tmp_exists, text, max_tokens, tok>>
    /\ UNCHANGED analysisVars

\* lines 59-68: one iteration of the loop over the units
chunk_text_loop ==
    /\ pc = "chunk_loop"
    /\ idx <= Len(sentences)
    /\ LET sentence == sentences[idx]
           sentence_tokens == tok[sentence]
       IN  IF Overflows(current_tokens, sentence_tokens, max_tokens)
           THEN /\ chunks' = Append(chunks, current_chunk)
                /\ current_chunk' = sentence \o Delim
                /\ current_tokens' = sentence_tokens
                /\ groups' = Append(groups, cur_group)
                /\ cur_group' = <<idx>>
           ELSE /\ chunks' = chunks
                /\ current_chunk' = current_chunk \o sentence \o Delim
                /\ current_tokens' = current_tokens + sentence_tokens
                /\ groups' = groups
                /\ cur_group' = Append(cur_group, idx)
    /\ idx' = idx + 1
    /\ UNCHANGED <<pc, sentences>>
    /\ UNCHANGED <<tmp_exists, text, max_tokens, tok>>
    /\ UNCHANGED analysisVars

\* a variant of lines 70-73 that returns without the last chunk
chunk_text_return_no_flush ==
    /\ pc = "chunk_loop"
    /\ idx > Len(sentences)
    /\ pc' = "chunked"
    /\ UNCHANGED <<sentences, idx, chunks, groups, current_chunk, current_tokens, cur_group>>
    /\ UNCHANGED <<tmp_exists, text, max_tokens, tok>>
    /\ UNCHANGED analysisVars

\* lines 70-73: the last chunk, if not empty, and the return
chunk_text_return ==
    /\ pc = "chunk_loop"
    /\ idx > Len(sentences)
    /\ IF current_chunk # <<>>
       THEN /\ chunks' = Append(chunks, current_chunk)
            /\ groups' = Append(groups, cur_group)
       ELSE /\ chunks' = chunks
            /\ groups' = groups
    /\ pc' = "chunked"
    /\ UNCHANGED <<sentences, idx, current_chunk, current_tokens, cur_group>>
    /\ UNCHANGED <<tmp_exists, text, max_tokens, tok>>
    /\ UNCHANGED analysisVars

ChunkNext == chunk_text_begin \/ chunk_text_loop \/ chunk_text_return

\* chunk_text on every preprocessed text, budget and tokenizer of the bounds
ChunkInit ==
    /\ pc = "chunk_text"
    /\ tmp_exists = FALSE
    /\ text \in ChunkInputs
    /\ max_tokens \in 1..MaxBudget
    /\ tok \in Tokenizers(text)
    /\ sentences = <<>>
    /\ idx = 1
    /\ chunks = <<>>
    /\ current_chunk = <<>>
    /\ current_tokens = 0
    /\ groups = <<>>
    /\ cur_group = <<>>
    /\ analyses = <<>>
    /\ calls = <<>>
    /\ outcomes = <<>>
    /\ consolidations = <<>>
    /\ final = <<>>
    /\ response = "none"

SpecChunk == ChunkInit /\ [][ChunkNext]_vars

(***************************************************************************)
(* Claims about chunk_text, checked under SpecChunk.                       *)
(***************************************************************************)
\* the units of a group, each followed by the re-inserted delimiter
RECURSIVE GroupText(_)
GroupText(g) ==
    IF g = <<>> THEN <<>> ELSE sentences[Head(g)] \o Delim \o GroupText(Tail(g))

\* the estimated token count of a group: the sum of the counts of its units
RECURSIVE GroupTokens(_)
GroupTokens(g) ==
    IF g = <<>> THEN 0 ELSE tok[sentences[Head(g)]] + GroupTokens(Tail(g))

Returned == pc = "chunked"

\* C1: every returned chunk of more than one unit has an estimated token
\* count of at most the budget; a chunk over the budget is made of exactly
\* one unit whose own count exceeds the budget.
C1_BudgetRespected ==
    Returned =>
        /\ Len(groups) = Len(chunks)
        /\ \A k \in 1..Len(chunks) :
              /\ chunks[k] = GroupText(groups[k])
              /\ Len(groups[k]) > 1 => GroupTokens(groups[k]) <= max_tokens
              /\ GroupTokens(groups[k]) > max_tokens =>
                    /\ Len(groups[k]) = 1
                    /\ tok[sentences[groups[k][1]]] > max_tokens

\* a run with a chunk of several units, closed by an overflow, and a chunk
\* made of one oversized unit
C1_Witness ==
    /\ Returned
    /\ \E k \in 1..Len(chunks) : k < Len(chunks) /\ Len(groups[k]) > 1
    /\ \E k \in 1..Len(chunks) : GroupTokens(groups[k]) > max_tokens

\* C2: the chunks, concatenated in order, are the units of the text in their
\* order, each followed by ". "; dropping the last re-added delimiter gives
\* the text back; no unit is dropped, duplicated, reordered or split.
C2_Lossless ==
    Returned =>
        LET units == Split(text, Delim)
            all == Concat(chunks)
        IN  /\ all = text \o Delim
            /\ SubSeq(all, 1, Len(all) - Len(Delim)) = text
            /\ Join(units, Delim) = text
            /\ Len(groups) = Len(chunks)
            /\ Concat(groups) = [i \in 1..Len(units) |-> i]
            /\ \A k \in 1..Len(chunks) :
                  chunks[k] = Concat([j \in 1..Len(groups[k]) |-> units[groups[k][j]] \o Delim])

\* a text of three units, one of them empty, returned in several chunks
C2_Witness ==
    /\ Returned
    /\ Len(sentences) >= 3
    /\ \E i \in 1..Len(sentences) : sentences[i] = <<>>
    /\ Len(chunks) >= 2

\* C3: chunk_text returns no chunk for the empty text and at least one chunk
\* for every other text.
C3_EmptyTextNoChunks ==
    Returned => (chunks = <<>> <=> text = <<>>)

\* k sentences, each ending in a period, separated by single spaces
PeriodSentences(t) ==
    LET units == Split(t, Delim)
    IN  /\ t # <<>>
        /\ t[Len(t)] = "."
        /\ \A i \in 1..Len(units) :
              LET u == units[i]
                  body == IF i = Len(units) THEN SubSeq(u, 1, Len(u) - 1) ELSE u
              IN  body # <<>> /\ \A j \in 1..Len(body) : body[j] \notin {".", " ", "\n"}

\* the i-th sentence of such a text, with its period
Sentence(t, i) ==
    LET units == Split(t, Delim)
    IN  IF i = Len(units) THEN units[i] ELSE Append(units[i], ".")

\* C4: for k sentences each ending in a period, a budget that holds them all
\* gives the one chunk "text " and a budget that admits one sentence per
\* chunk gives the k chunks "sentence ", the last period not doubled.
C4_ExampleChunks ==
    (Returned /\ PeriodSentences(text)) =>
        LET units == Split(text, Delim)
            k == Len(units)
            all == GroupTokens([i \in 1..k |-> i])
        IN  /\ all <= max_tokens => chunks = << text \o <<" ">> >>
            /\ (/\ \A i \in 1..k : tok[units[i]] <= max_tokens
                /\ \A i \in 1..(k - 1) : tok[units[i]] + tok[units[i + 1]] > max_tokens)
               => chunks = [i \in 1..k |-> Sentence(text, i) \o <<" ">>]

\* C10: every emitted chunk holds at least one whole unit and is never the
\* empty string; a unit over the budget is a chunk by itself.
C10_NoEmptyChunk ==
    Returned =>
        /\ Len(groups) = Len(chunks)
        /\ \A k \in 1..Len(chunks) :
              /\ chunks[k] # <<>>
              /\ Len(groups[k]) >= 1
              /\ (\E j \in 1..Len(groups[k]) : tok[sentences[groups[k][j]]] > max_tokens)
                    => Len(groups[k]) = 1

(***************************************************************************)
(* JSON values.  A list element is [t, s]: a string, a number or a nested  *)
(* object, s its text.  The value of a field is [t, items]: a list, or a   *)
(* string (iterated character by character), or a number.                  *)
(***************************************************************************)
Str(s) == [t |-> "str", s |-> s]
Num(s) == [t |-> "num", s |-> s]
Dict(s) == [t |-> "dict", s |-> s]

List(items) == [t |-> "list", items |-> items]
StrValue(chars) == [t |-> "str", items |-> chars]
NumValue == [t |-> "num", items |-> <<>>]

Keys == <<"key_financial_metrics", "risks_and_challenges",
          "strategic_initiatives", "significant_changes">>

KeySet == Range(Keys)

\* list.extend(v) iterates v: a list or a string can be iterated, a number cannot
Iterable(v) == v.t \in {"list", "str"}

\* dict.fromkeys hashes every element: a nested object cannot be hashed
Hashable(e) == e.t \in {"str", "num"}

\* sorted(key=len) takes len of every element: a number has none
HasLen(e) == e.t \in {"str", "dict"}

(***************************************************************************)
(* TenKAnalyzer.consolidate_analyses                                       *)
(***************************************************************************)
TopN == 10
TruncateAbove == 10
TruncateTo == 7

Min(a, b) == IF a <= b THEN a ELSE b

\* seq[:n]
Take(seq, n) == SubSeq(seq, 1, Min(n, Len(seq)))

\* lines 149-152: the field of every record that has it, in record order
Extended(records, key) ==
    Concat([i \in 1..Len(records) |->
               IF key \in DOMAIN records[i] THEN records[i][key].items ELSE <<>>])

\* a variant of line 157 that keeps the last occurrence of each string
RECURSIVE DedupKeepLast(_)
DedupKeepLast(seq) ==
    IF seq = <<>> THEN <<>>
    ELSE IF \E i \in 2..Len(seq) : seq[i] = Head(seq)
         THEN DedupKeepLast(Tail(seq))
         ELSE <<Head(seq)>> \o DedupKeepLast(Tail(seq))

\* line 157: list(dict.fromkeys(seq)), the first occurrence of each element
RECURSIVE Dedup(_)
Dedup(seq) ==
    IF seq = <<>> THEN <<>>
    ELSE LET rest == Dedup(SubSeq(seq, 1, Len(seq) - 1))
             last == seq[Len(seq)]
         IN  IF \E i \in 1..Len(rest) : rest[i] = last THEN rest ELSE Append(rest, last)

\* insert e after the elements that are not longer than e
RECURSIVE InsertByLen(_, _)
InsertByLen(sorted, e) ==
    IF sorted = <<>> THEN <<e>>
    ELSE IF Len(Head(sorted).s) <= Len(e.s)
         THEN <<Head(sorted)>> \o InsertByLen(Tail(sorted), e)
         ELSE <<e>> \o sorted

\* line 160: sorted(seq, key=len), a stable sort
RECURSIVE SortedByLen(_)
SortedByLen(seq) ==
    IF seq = <<>> THEN <<>>
    ELSE InsertByLen(SortedByLen(SubSeq(seq, 1, Len(seq) - 1)), seq[Len(seq)])

\* line 163: the test of the second truncation
SecondTruncationTaken(records, key) ==
    Len(Take(SortedByLen(Dedup(Extended(records, key))), TopN)) > TruncateAbove

\* lines 155-164 for one field
ConsolidatedField(records, key) ==
    LET top == Take(SortedByLen(Dedup(Extended(records, key))), TopN)
    IN  IF Len(top) > TruncateAbove THEN Take(top, TruncateTo) ELSE top

\* the TypeError of extend (152), dict.fromkeys (157) or len (160)
ConsolidateRaises(records) ==
    \/ \E i \in 1..Len(records) : \E key \in KeySet :
          key \in DOMAIN records[i] /\ ~Iterable(records[i][key])
    \/ \E key \in KeySet : \E j \in 1..Len(Extended(records, key)) :
          \/ ~Hashable(Extended(records, key)[j])
          \/ ~HasLen(Extended(records, key)[j])

\* lines 139-166
consolidate_analyses(records) ==
    IF ConsolidateRaises(records)
    THEN [raised |-> TRUE, value |-> <<>>]
    ELSE [raised |-> FALSE, value |-> [key \in KeySet |-> ConsolidatedField(records, key)]]

(***************************************************************************)
(* consolidate_analyses on sequences of well-shaped records.               *)
(***************************************************************************)
ListA == <<Str("gggg"), Str("a"), Str("fff"), Str("cc")>>
ListB == <<Str("llllll"), Str("b"), Str("a"), Str("eee"), Str("dd")>>
ListC == <<Str("kkkkkk"), Str("jjjjj"), Str("b"), Str("iiiii"), Str("hhhh"), Str("b")>>

InsightLists == {ListA, ListB, ListC}

Reverse(seq) == [i \in 1..Len(seq) |-> seq[Len(seq) + 1 - i]]

\* records as analyze_chunk builds them, one without some canonical fields,
\* and one with a diagnostic field
ConsolRecords ==
    {[key_financial_metrics |-> List(x), risks_and_challenges |-> List(y),
      strategic_initiatives |-> List(Reverse(x)), significant_changes |-> List(<<>>)] :
        x \in InsightLists, y \in InsightLists}
    \cup {[risks_and_challenges |-> List(ListB)]}
    \cup {[key_financial_metrics |-> List(<<>>), risks_and_challenges |-> List(<<>>),
           strategic_initiatives |-> List(<<>>), significant_changes |-> List(<<>>),
           error |-> "Connection error."]}

ConsolInputs == UNION {[1..n -> ConsolRecords] : n \in 0..MaxRecords}

ConsolInit ==
    /\ pc = "consolidate"
    /\ analyses \in ConsolInputs
    /\ tmp_exists = FALSE
    /\ text = <<>>
    /\ max_tokens = 1
    /\ tok = <<>>
    /\ sentences = <<>>
    /\ idx = 1
    /\ chunks = <<>>
    /\ current_chunk = <<>>
    /\ current_tokens = 0
    /\ groups = <<>>
    /\ cur_group = <<>>
    /\ calls = <<>>
    /\ outcomes = <<>>
    /\ consolidations = <<>>
    /\ final = <<>>
    /\ response = "none"

\* one call of consolidate_analyses
consolidate_call ==
    /\ pc = "consolidate"
    /\ ~consolidate_analyses(analyses).raised
    /\ final' = consolidate_analyses(analyses).value
    /\ consolidations' = Append(consolidations, analyses)
    /\ pc' = "consolidated"
    /\ UNCHANGED <<tmp_exists, text, max_tokens, tok, analyses, calls, outcomes, response>>
    /\ UNCHANGED chunkVars

SpecConsol == ConsolInit /\ [][consolidate_call]_vars

\* the places of a field's strings in the input, in record order
Places(key) ==
    UNION {{<<i, j>> : j \in 1..Len(analyses[i][key].items)} :
              i \in {n \in 1..Len(analyses) : key \in DOMAIN analyses[n]}}

At(key, p) == analyses[p[1]][key].items[p[2]]

Earlier(p, q) == p[1] < q[1] \/ (p[1] = q[1] /\ p[2] < q[2])

\* e is first seen before f in the field's input
FirstSeenBefore(key, e, f) ==
    \E p \in Places(key) :
        /\ At(key, p) = e
        /\ \A q \in Places(key) : At(key, q) = f => Earlier(p, q)

\* e ranks before f: shorter, or as long and first seen earlier
RanksBefore(key, e, f) ==
    \/ Len(e.s) < Len(f.s)
    \/ Len(e.s) = Len(f.s) /\ FirstSeenBefore(key, e, f)

InputStrings(key) == {At(key, p) : p \in Places(key)}

Fence == "<fence>"

\* the payloads that are JSON text, and the value json.loads gives for each
JsonValue(p) ==
    CASE p = "object_full" ->
            [kind |-> "object",
             fields |-> [key_financial_metrics |-> List(ListA),
                         risks_and_challenges |-> List(ListB),
                         strategic_initiatives |-> List(ListC),
                         significant_changes |-> List(<<Str("a")>>)]]
      [] p = "object_partial" ->
            [kind |-> "object",
             fields |-> [key_financial_metrics |-> List(<<Str("Revenue grew 10%.")>>)]]
      [] p = "object_extra_key" ->
            [kind |-> "object",
             fields |-> [summary |-> StrValue(<<Str("o"), Str("k")>>),
                         risks_and_challenges |-> List(<<Str("Debt increased.")>>)]]
      [] p = "object_number_field" ->
            [kind |-> "object", fields |-> [key_financial_metrics |-> NumValue]]
      [] p = "object_string_field" ->
            [kind |-> "object",
             fields |-> [risks_and_challenges |-> StrValue(<<Str("n"), Str("o")>>)]]
      [] p = "object_nested_items" ->
            [kind |-> "object",
             fields |-> [strategic_initiatives |-> List(<<Dict("{point: x}")>>)]]
      [] p = "object_number_items" ->
            [kind |-> "object",
             fields |-> [significant_changes |-> List(<<Num("2024")>>)]]
      [] p = "array" ->
            [kind |-> "array", fields |-> <<>>]

JsonPayloads == {"object_full", "object_partial", "object_extra_key",
                 "object_number_field", "object_string_field",
                 "object_nested_items", "object_number_items", "array"}

\* a payload that is no JSON text
Payloads == JsonPayloads \cup {"prose"}

Blank == {"\n"}

\* lines 103-104: a leading fence followed by json is removed
StripOpeningFence(c) ==
    IF StartsWith(c, <<Fence, "json">>) THEN DropFirst(c, 2) ELSE c

\* lines 105-106: what precedes a trailing fence is kept
StripClosingFence(c) ==
    IF c # <<>> /\ c[Len(c)] = Fence THEN SubSeq(c, 1, Len(c) - 1) ELSE c

RECURSIVE LStripBlank(_)
LStripBlank(c) == IF c # <<>> /\ Head(c) \in Blank THEN LStripBlank(Tail(c)) ELSE c

RECURSIVE RStripBlank(_)
RStripBlank(c) ==
    IF c # <<>> /\ c[Len(c)] \in Blank THEN RStripBlank(SubSeq(c, 1, Len(c) - 1)) ELSE c

\* lines 102-107: cleaned_content
Cleaned(raw_content) == RStripBlank(LStripBlank(StripClosingFence(StripOpeningFence(raw_content))))

\* line 110: json.loads succeeds on one JSON text and nothing else
JsonLoads(c) == Len(c) = 1 /\ c[1] \in JsonPayloads

EmptyFields == [key \in KeySet |-> List(<<>>)]

\* lines 131-137: the record of a failed call, or of any other exception
ErrorRecord(message) == EmptyFields @@ [error |-> message]

\* lines 121-127: the record of a response that is no JSON text
RawResponseRecord(raw_content) == EmptyFields @@ [raw_response |-> raw_content]

\* lines 75-137: analyze_chunk for what the completion service did
analyze_chunk(outcome) ==
    IF outcome.failed THEN ErrorRecord(outcome.error)
    ELSE LET cleaned_content == Cleaned(outcome.content)
         IN  IF ~JsonLoads(cleaned_content)
             THEN RawResponseRecord(outcome.content)
             ELSE LET parsed_response == JsonValue(cleaned_content[1])
                  IN  IF parsed_response.kind # "object"
                      THEN ErrorRecord("list object has no attribute get")
                      ELSE [key \in KeySet |->
                               IF key \in DOMAIN parsed_response.fields
                               THEN parsed_response.fields[key]
                               ELSE List(<<>>)]

\* the responses of the model: each payload bare and in a json fence, and a
\* payload in a fence without the word json and in a fence never closed
Contents ==
    {<<p>> : p \in Payloads}
    \cup {<<Fence, "json", "\n", p, "\n", Fence>> : p \in Payloads}
    \cup {<<Fence, "\n", p, "\n", Fence>> : p \in {"object_partial"}}
    \cup {<<Fence, "json", "\n", p>> : p \in {"object_partial"}}

Outcomes ==
    {[failed |-> TRUE, content |-> <<>>, error |-> "Connection error."]}
    \cup {[failed |-> FALSE, content |-> c, error |-> ""] : c \in Contents}

(***************************************************************************)
(* The /analyze request: main.analyze_10k and TenKAnalyzer.analyze_10k.    *)
(***************************************************************************)
\* the documents of the requests: what extract_text_from_pdf returns for a
\* PDF without pages, and for PDFs of one and of two pages
Documents == {<<>>, <<"A", "\n">>, <<"A", ".", "\n", "A", "\n">>}

PipeInit ==
    /\ pc = "idle"
    /\ tmp_exists = FALSE
    /\ text = <<>>
    /\ max_tokens \in 1..MaxBudget
    /\ tok = <<>>
    /\ sentences = <<>>
    /\ idx = 1
    /\ chunks = <<>>
    /\ current_chunk = <<>>
    /\ current_tokens = 0
    /\ groups = <<>>
    /\ cur_group = <<>>
    /\ analyses = <<>>
    /\ calls = <<>>
    /\ outcomes = <<>>
    /\ consolidations = <<>>
    /\ final = <<>>
    /\ response = "none"

\* main.py line 30: the temporary file is created, kept when closed
receive_upload ==
    /\ pc = "idle"
    /\ tmp_exists' = TRUE
    /\ pc' = "read"
    /\ UNCHANGED <<text, max_tokens, tok>>
    /\ UNCHANGED chunkVars
    /\ UNCHANGED analysisVars

\* main.py line 31: the upload is read, or the read raises out of the handler
read_upload ==
    /\ pc = "read"
    /\ \E ok \in BOOLEAN :
          IF ok THEN pc' = "write" /\ response' = response
          ELSE pc' = "done" /\ response' = "upload_error"
    /\ UNCHANGED <<tmp_exists, text, max_tokens, tok>>
    /\ UNCHANGED chunkVars
    /\ UNCHANGED <<analyses, calls, outcomes, consolidations, final>>

\* main.py lines 32-33: the content is written, or the write raises out of
\* the handler
write_upload ==
    /\ pc = "write"
    /\ \E ok \in BOOLEAN :
          IF ok THEN pc' = "extract" /\ response' = response
          ELSE pc' = "done" /\ response' = "upload_error"
    /\ UNCHANGED <<tmp_exists, text, max_tokens, tok>>
    /\ UNCHANGED chunkVars
    /\ UNCHANGED <<analyses, calls, outcomes, consolidations, final>>

\* model.py lines 173-174: the text is extracted and preprocessed, or the
\* extraction raises
extract_and_preprocess ==
    /\ pc = "extract"
    /\ \/ /\ pc' = "finally"
          /\ response' = "extract_error"
          /\ UNCHANGED <<text, tok>>
       \/ \E raw \in Documents :
             /\ text' = preprocess_text(raw)
             /\ tok' \in Tokenizers(text')
             /\ pc' = "chunk_text"
             /\ response' = response
    /\ UNCHANGED <<tmp_exists, max_tokens>>
    /\ UNCHANGED chunkVars
    /\ UNCHANGED <<analyses, calls, outcomes, consolidations, final>>

\* a variant of lines 182-185 where a failed call ends the loop
analyze_chunk_step_stops_on_failure ==
    /\ pc = "chunked"
    /\ Len(analyses) < Len(chunks)
    /\ \E outcome \in Outcomes :
          /\ calls' = Append(calls, chunks[Len(analyses) + 1])
          /\ outcomes' = Append(outcomes, outcome)
          /\ analyses' = Append(analyses, analyze_chunk(outcome))
          /\ IF outcome.failed
             THEN pc' = "finally" /\ response' = "analysis_error"
             ELSE pc' = pc /\ response' = response
    /\ UNCHANGED <<tmp_exists, text, max_tokens, tok, consolidations, final>>
    /\ UNCHANGED chunkVars

\* model.py lines 182-185: the next chunk is analysed, whatever the
\* completion service does
analyze_chunk_step ==
    /\ pc = "chunked"
    /\ Len(analyses) < Len(chunks)
    /\ \E outcome \in Outcomes :
          /\ calls' = Append(calls, chunks[Len(analyses) + 1])
          /\ outcomes' = Append(outcomes, outcome)
          /\ analyses' = Append(analyses, analyze_chunk(outcome))
    /\ UNCHANGED <<pc, tmp_exists, text, max_tokens, tok, consolidations, final, response>>
    /\ UNCHANGED chunkVars

\* model.py lines 188-190: the analyses are consolidated and returned, or
\* consolidate_analyses raises
consolidate_step ==
    /\ pc = "chunked"
    /\ Len(analyses) = Len(chunks)
    /\ consolidations' = Append(consolidations, analyses)
    /\ IF consolidate_analyses(analyses).raised
       THEN response' = "consolidate_error" /\ final' = final
       ELSE response' = "ok" /\ final' = consolidate_analyses(analyses).value
    /\ pc' = "finally"
    /\ UNCHANGED <<tmp_exists, text, max_tokens, tok, analyses, calls, outcomes>>
    /\ UNCHANGED chunkVars

\* main.py lines 39-41: the temporary file is removed
cleanup ==
    /\ pc = "finally"
    /\ tmp_exists' = FALSE
    /\ pc' = "done"
    /\ UNCHANGED <<text, max_tokens, tok>>
    /\ UNCHANGED chunkVars
    /\ UNCHANGED analysisVars

PipeNext ==
    \/ receive_upload
    \/ read_upload
    \/ write_upload
    \/ extract_and_preprocess
    \/ chunk_text_begin
    \/ chunk_text_loop
    \/ chunk_text_return
    \/ analyze_chunk_step
    \/ consolidate_step
    \/ cleanup

SpecPipe == PipeInit /\ [][PipeNext]_vars

(***************************************************************************)
(* Claims about the request, checked under SpecPipe.                       *)
(***************************************************************************)
\* extraction succeeded and the request went on to the chunks
ExtractionSucceeded == response \notin {"none", "upload_error", "extract_error"}

AllFieldsEmpty(record) ==
    \A key \in KeySet : key \in DOMAIN record /\ record[key] = List(<<>>)

\* C6: analyze_chunk is called once per chunk, in chunk order; a failed call
\* gives a record of four empty fields and an error field; the loop goes on
\* after a failure and consolidate_analyses is called once, with one record
\* per chunk in chunk order.
C6_OneCallPerChunk ==
    /\ Len(calls) = Len(analyses)
    /\ Len(outcomes) = Len(analyses)
    /\ Len(calls) <= Len(chunks)
    /\ \A i \in 1..Len(calls) :
          /\ calls[i] = chunks[i]
          /\ outcomes[i].failed =>
                /\ AllFieldsEmpty(analyses[i])
                /\ DOMAIN analyses[i] = KeySet \cup {"error"}
    /\ Len(consolidations) <= 1
    /\ Len(consolidations) = 1 =>
          /\ consolidations[1] = analyses
          /\ Len(analyses) = Len(chunks)
    /\ (pc = "done" /\ response \notin {"upload_error", "extract_error"}) =>
          Len(consolidations) = 1

\* a request of several chunks whose first call failed and whose later call
\* succeeded, consolidated
C6_Witness ==
    /\ pc = "done"
    /\ Len(chunks) >= 2
    /\ Len(outcomes) = Len(chunks)
    /\ outcomes[1].failed
    /\ ~outcomes[2].failed
    /\ Len(consolidations) = 1

\* the cleaned content is the text of a JSON object
ParsesAsObject(content) ==
    /\ JsonLoads(Cleaned(content))
    /\ JsonValue(Cleaned(content)[1]).kind = "object"

\* C7: a successful call whose cleaned content is not the text of a JSON
\* object gives four empty fields and raw_response, the content as received,
\* and no error field; error is attached only when the call itself failed.
C7_NonJsonGivesRawResponse ==
    \A i \in 1..Len(analyses) :
        /\ (~outcomes[i].failed /\ ~ParsesAsObject(outcomes[i].content)) =>
              /\ AllFieldsEmpty(analyses[i])
              /\ DOMAIN analyses[i] = KeySet \cup {"raw_response"}
              /\ analyses[i].raw_response = outcomes[i].content
        /\ "error" \in DOMAIN analyses[i] => outcomes[i].failed

\* a sequence of strings
StringList(v) == v.t = "list" /\ \A j \in 1..Len(v.items) : v.items[j].t = "str"

\* C8: every record handed to the consolidator has the four canonical
\* fields, each a sequence of strings; consolidation never aborts the
\* request; the request returns exactly the four fields, sequences of
\* strings.
C8_WellShapedRecords ==
    /\ \A i \in 1..Len(analyses) : \A key \in KeySet :
          key \in DOMAIN analyses[i] /\ StringList(analyses[i][key])
    /\ response # "consolidate_error"
    /\ (pc = "done" /\ ExtractionSucceeded) =>
          /\ response = "ok"
          /\ DOMAIN final = KeySet
          /\ \A key \in KeySet : \A j \in 1..Len(final[key]) : final[key][j].t = "str"

\* C9: no request ends with its temporary file still existing.
C9_TempFileRemoved ==
    pc = "done" => ~tmp_exists

====
